---- MODULE Spec2Model ----
(***************************************************************************)
(* Entity graph cloner (cloner.py): Entity, EntityGraph, EntityCloner and  *)
(* construct_output, as a state machine.                                   *)
(*                                                                         *)
(* An EntityGraph is the record [start, entities, start_parents];          *)
(* `entities` is the dict in insertion order, a sequence of Entity records *)
(* [entity_id, name, description, children].  The children of an entity    *)
(* are Entity objects of the same graph, where entity_id is a key, so the  *)
(* set holds their ids.  Python's None is NoneStr for a description, 0 for *)
(* an entity reference and <<>> for an optional graph or dict.             *)
(***************************************************************************)
EXTENDS Integers, Sequences, FiniteSets, TLC

\* ---------------------------------------------------------------- bounds
MaxId == 2
MaxLinks == 2
MaxDataEntities == 2
MaxDataLinks == 1

Ids == 1..MaxId
NoneStr == "<None>"
\* the <<name, description>> arguments entities are created with
EntityArgs == {<<"A", NoneStr>>, <<"B", "">>, <<"B", "D">>}
\* those of the graphs that are cloned
CloneArgs == {<<"A", NoneStr>>, <<"B", "D">>}

\* ---------------------------------------------------------------- Entity
Entity(entity_id, name, description) ==
    [entity_id |-> entity_id, name |-> name,
     description |-> description, children |-> {}]

\* Entity.to_dict: the description key is present only for a truthy description
entity_to_dict(e) ==
    IF e.description # NoneStr /\ e.description # ""
    THEN [entity_id |-> e.entity_id, name |-> e.name, description |-> e.description]
    ELSE [entity_id |-> e.entity_id, name |-> e.name]

\* ----------------------------------------------------------- EntityGraph
EntityGraph(start) ==
    [start |-> start, entities |-> <<>>, start_parents |-> {}]

EntityIds(g) == {g.entities[i].entity_id : i \in DOMAIN g.entities}

has_entity(g, entity_id) ==
    \E i \in DOMAIN g.entities : g.entities[i].entity_id = entity_id

IndexOf(g, entity_id) ==
    CHOOSE i \in DOMAIN g.entities : g.entities[i].entity_id = entity_id

get_entity(g, entity_id) == g.entities[IndexOf(g, entity_id)]

\* the result of a call: the exception raised ("none" when it returns) and
\* the graph after the call
Outcome(raised, graph) == [raised |-> raised, graph |-> graph]

\* add_entity without the check of line 56: an entity with a present id replaces it
add_entity_overwrite(g, entity_id, name, description) ==
    IF has_entity(g, entity_id)
    THEN Outcome("none",
                 [g EXCEPT !.entities[IndexOf(g, entity_id)] =
                              Entity(entity_id, name, description)])
    ELSE Outcome("none",
                 [g EXCEPT !.entities = Append(@, Entity(entity_id, name, description))])

add_entity(g, entity_id, name, description) ==
    IF has_entity(g, entity_id)
    THEN Outcome("DuplicateEntity", g)
    ELSE Outcome("none",
                 [g EXCEPT !.entities = Append(@, Entity(entity_id, name, description))])

\* add_link that records the wrong end of a link to start in start_parents
add_link_records_target(g, from_entity, to_entity) ==
    IF ~has_entity(g, from_entity)
    THEN Outcome("UnknownEntity", g)
    ELSE IF ~has_entity(g, to_entity)
    THEN Outcome("UnknownEntity", g)
    ELSE Outcome("none",
                 [g EXCEPT
                    !.entities[IndexOf(g, from_entity)].children = @ \cup {to_entity},
                    !.start_parents = IF to_entity = g.start
                                      THEN @ \cup {to_entity} ELSE @])

add_link(g, from_entity, to_entity) ==
    IF ~has_entity(g, from_entity)
    THEN Outcome("UnknownEntity", g)
    ELSE IF ~has_entity(g, to_entity)
    THEN Outcome("UnknownEntity", g)
    ELSE Outcome("none",
                 [g EXCEPT
                    !.entities[IndexOf(g, from_entity)].children = @ \cup {to_entity},
                    !.start_parents = IF to_entity = g.start
                                      THEN @ \cup {from_entity} ELSE @])

\* add_entity(**entity): a missing description key takes the default None
DictDescription(d) ==
    IF "description" \in DOMAIN d THEN d.description ELSE NoneStr

RECURSIVE AddEntities(_, _, _)
AddEntities(g, ds, i) ==
    IF i > Len(ds) THEN Outcome("none", g)
    ELSE LET r == add_entity(g, ds[i].entity_id, ds[i].name, DictDescription(ds[i]))
         IN IF r.raised # "none" THEN r ELSE AddEntities(r.graph, ds, i + 1)

RECURSIVE AddLinks(_, _, _)
AddLinks(g, ls, i) ==
    IF i > Len(ls) THEN Outcome("none", g)
    ELSE LET r == add_link(g, ls[i].from, ls[i].to)
         IN IF r.raised # "none" THEN r ELSE AddLinks(r.graph, ls, i + 1)

\* build_from_data that checks the start only after the links are added
build_from_data_late_check(start, data) ==
    LET a == AddEntities(EntityGraph(start), data.entities, 1)
        l == AddLinks(a.graph, data.links, 1)
    IN IF a.raised # "none" THEN a
       ELSE IF l.raised # "none" THEN l
       ELSE IF ~has_entity(l.graph, start)
       THEN Outcome("StartNotFound", l.graph)
       ELSE l

build_from_data(start, data) ==
    LET a == AddEntities(EntityGraph(start), data.entities, 1)
    IN IF a.raised # "none" THEN a
       ELSE IF ~has_entity(a.graph, start)
       THEN Outcome("StartNotFound", a.graph)
       ELSE AddLinks(a.graph, data.links, 1)

\* the orders in which a for loop can iterate a set
Orders(S) ==
    {s \in [1..Cardinality(S) -> S] : \A i, j \in DOMAIN s : i # j => s[i] # s[j]}

\* EntityGraph.to_dict: the iteration order of a children set is not fixed,
\* so to_dict(g) is the set of dicts the call can return
RECURSIVE LinkLists(_, _)
LinkLists(g, i) ==
    IF i > Len(g.entities) THEN {<<>>}
    ELSE LET e == g.entities[i]
         IN {[k \in DOMAIN o |-> [from |-> e.entity_id, to |-> o[k]]] \o rest :
                o \in Orders(e.children), rest \in LinkLists(g, i + 1)}

to_dict(g) ==
    {[entities |-> [i \in DOMAIN g.entities |-> entity_to_dict(g.entities[i])],
      links |-> ls] : ls \in LinkLists(g, 1)}

\* ---------------------------------------------------------- EntityCloner
RECURSIVE SkipUsed(_, _, _)
SkipUsed(n, initial, cloned) ==
    IF has_entity(initial, n) \/ (cloned # <<>> /\ has_entity(cloned[1], n))
    THEN SkipUsed(n + 1, initial, cloned)
    ELSE n

\* generate_id that probes the cloned graph only
generate_id_cloned_only(current_id, initial, cloned) ==
    SkipUsed(current_id + 1, EntityGraph(0), cloned)

\* the value generate_id leaves in _current_id and returns
generate_id(current_id, initial, cloned) ==
    SkipUsed(current_id + 1, initial, cloned)

\* The state clone_subgraph works on: [current_id, cloned_graph, visited, queue]
\* and `raised`, the exception of the call that failed ("none" if none did).

\* clone_new_child without line 174: the child is not recorded in visited
clone_new_child_unmarked(cl, initial, current, child) ==
    LET cloned_id == generate_id(cl.current_id, initial, <<cl.cloned_graph>>)
        c == get_entity(initial, child)
        a == add_entity(cl.cloned_graph, cloned_id, c.name, c.description)
        l == add_link(a.graph, cl.visited[current], cloned_id)
    IN [cl EXCEPT !.current_id = cloned_id, !.cloned_graph = l.graph,
                  !.queue = Append(@, child)]

\* clone_new_child that copies name and description from the parent
clone_new_child_of_parent(cl, initial, current, child) ==
    LET cloned_id == generate_id(cl.current_id, initial, <<cl.cloned_graph>>)
        c == get_entity(initial, current)
        a == add_entity(cl.cloned_graph, cloned_id, c.name, c.description)
        l == add_link(a.graph, cl.visited[current], cloned_id)
    IN [current_id |-> cloned_id,
        cloned_graph |-> l.graph,
        visited |-> (child :> cloned_id) @@ cl.visited,
        queue |-> Append(cl.queue, child),
        raised |-> "none"]

\* the child is not in visited: clone it and link it to its parent (lines 165-174)
clone_new_child(cl, initial, current, child) ==
    LET cloned_id == generate_id(cl.current_id, initial, <<cl.cloned_graph>>)
        c == get_entity(initial, child)
        a == add_entity(cl.cloned_graph, cloned_id, c.name, c.description)
        l == add_link(a.graph, cl.visited[current], cloned_id)
    IN IF a.raised # "none"
       THEN [cl EXCEPT !.current_id = cloned_id, !.raised = a.raised]
       ELSE IF l.raised # "none"
       THEN [cl EXCEPT !.current_id = cloned_id, !.cloned_graph = l.graph,
                       !.raised = l.raised]
       ELSE [current_id |-> cloned_id,
             cloned_graph |-> l.graph,
             visited |-> (child :> cloned_id) @@ cl.visited,
             queue |-> Append(cl.queue, child),
             raised |-> "none"]

\* link_cloned_child that adds no link for a child that is already cloned
link_cloned_child_skip(cl, current, child) == cl

\* link_cloned_child that also puts the child on the queue again
link_cloned_child_requeue(cl, current, child) ==
    LET l == add_link(cl.cloned_graph, cl.visited[current], cl.visited[child])
    IN [cl EXCEPT !.cloned_graph = l.graph, !.raised = l.raised,
                  !.queue = Append(@, child)]

\* the child is already cloned: only link it to its parent (lines 176-179)
link_cloned_child(cl, current, child) ==
    LET l == add_link(cl.cloned_graph, cl.visited[current], cl.visited[child])
    IN [cl EXCEPT !.cloned_graph = l.graph, !.raised = l.raised]

\* the body of `for child in current.children`
clone_child(cl, initial, current, child) ==
    IF child \notin DOMAIN cl.visited
    THEN clone_new_child(cl, initial, current, child)
    ELSE link_cloned_child(cl, current, child)

\* construct_output that takes the parents from the cloned graph
construct_output_cloned_parents(initial, cloned) ==
    {[entities |-> initial_dict.entities \o cloned_dict.entities,
      links |-> initial_dict.links \o cloned_dict.links
                \o [k \in DOMAIN ps |-> [from |-> ps[k], to |-> cloned.start]]] :
        initial_dict \in to_dict(initial), cloned_dict \in to_dict(cloned),
        ps \in Orders(cloned.start_parents)}

\* construct_output: the dicts it can return, given the two graphs
construct_output(initial, cloned) ==
    {[entities |-> initial_dict.entities \o cloned_dict.entities,
      links |-> initial_dict.links \o cloned_dict.links
                \o [k \in DOMAIN ps |-> [from |-> ps[k], to |-> cloned.start]]] :
        initial_dict \in to_dict(initial), cloned_dict \in to_dict(cloned),
        ps \in Orders(initial.start_parents)}

\* ------------------------------------------------------------------ state
VARIABLES
    initial_graph,  \* the EntityGraph under construction, then being cloned
    raised,         \* the exception the last call raised, "none" if it returned
    pc,             \* position of the program
    current_id,     \* EntityCloner._current_id
    cloned_graph,   \* EntityCloner.cloned_graph: <<>> (None) or <<graph>>
    visited,        \* clone_subgraph: initial id -> cloned id
    queue,          \* clone_subgraph: FIFO of initial-graph entities (ids)
    current,        \* clone_subgraph: the entity being expanded, 0 if none
    pending,        \* clone_subgraph: children of current the for loop has not reached
    output,         \* the dict construct_output returned: <<>> or <<dict>>
    data            \* the data record main read and built the graph from: <<>> or
                    \* <<record>>; main never reads it after build_from_data, so
                    \* it is <<>> again from the next call on

vars == <<data, initial_graph, raised, pc, current_id, cloned_graph, visited, queue,
          current, pending, output>>

cloner_vars == <<current_id, cloned_graph, visited, queue, current, pending, output>>

\* the edges of a graph: <<from id, to id>> for every child of every entity
Links(g) ==
    UNION {{<<g.entities[i].entity_id, c>> : c \in g.entities[i].children} :
             i \in DOMAIN g.entities}

LinkCount(g) == Cardinality(Links(g))

\* the data records build_from_data is given
EntityDicts ==
    {IF a[2] = NoneStr
     THEN [entity_id |-> i, name |-> a[1]]
     ELSE [entity_id |-> i, name |-> a[1], description |-> a[2]] :
        i \in Ids, a \in EntityArgs}

LinkDicts == {[from |-> f, to |-> t] : f \in Ids, t \in Ids}

SeqsUpTo(S, n) == UNION {[1..k -> S] : k \in 0..n}

DataRecords ==
    {[entities |-> es, links |-> ls] :
        es \in SeqsUpTo(EntityDicts, MaxDataEntities),
        ls \in SeqsUpTo(LinkDicts, MaxDataLinks)}

EmptyMap == [x \in {} |-> 0]

\* EntityGraph(start) for some start id; EntityCloner not yet constructed
Init ==
    /\ \E start \in Ids : initial_graph = EntityGraph(start)
    /\ raised = "none"
    /\ pc = "new"
    /\ current_id = 0
    /\ cloned_graph = <<>>
    /\ visited = EmptyMap
    /\ queue = <<>>
    /\ current = 0
    /\ pending = {}
    /\ output = <<>>
    /\ data = <<>>

\* initial_graph = EntityGraph.build_from_data(start, data), first call of main,
\* which calls no add_entity or add_link of its own afterwards
BuildFromData ==
    /\ pc = "new"
    /\ \E d \in DataRecords :
          LET r == build_from_data(initial_graph.start, d)
          IN /\ data' = <<d>>
             /\ raised' = r.raised
             /\ initial_graph' = IF r.raised = "none" THEN r.graph ELSE initial_graph
             /\ pc' = IF r.raised = "none" THEN "built" ELSE "failed"
    /\ UNCHANGED cloner_vars

AddEntity(entity_id, name, description) ==
    /\ pc \in {"new", "graph"}
    /\ LET r == add_entity(initial_graph, entity_id, name, description)
       IN /\ raised' = r.raised
          /\ initial_graph' = r.graph
    /\ pc' = "graph"
    /\ data' = <<>>
    /\ UNCHANGED cloner_vars

AddLink(from_entity, to_entity) ==
    /\ pc \in {"new", "graph"}
    /\ LET r == add_link(initial_graph, from_entity, to_entity)
       IN /\ LinkCount(r.graph) <= MaxLinks
          /\ raised' = r.raised
          /\ initial_graph' = r.graph
    /\ pc' = "graph"
    /\ data' = <<>>
    /\ UNCHANGED cloner_vars

\* initial_graph = EntityGraph.build_from_data(g.start, g.to_dict())
RoundTrip ==
    /\ pc = "graph"
    /\ \E d \in to_dict(initial_graph) :
          LET r == build_from_data(initial_graph.start, d)
          IN /\ raised' = r.raised
             /\ initial_graph' = IF r.raised = "none" THEN r.graph ELSE initial_graph
    /\ data' = <<>>
    /\ UNCHANGED <<pc, cloner_vars>>

\* clone_subgraph up to the head of the while loop (lines 149-160)
CloneStart ==
    /\ pc \in {"graph", "built"}
    /\ LET cloned_start == generate_id(current_id, initial_graph, cloned_graph)
       IN /\ current_id' = cloned_start
          /\ IF ~has_entity(initial_graph, initial_graph.start)
             THEN \* get_start() is None: current.name raises
                  /\ cloned_graph' = <<EntityGraph(cloned_start)>>
                  /\ raised' = "AttributeError"
                  /\ pc' = "crashed"
                  /\ UNCHANGED <<visited, queue>>
             ELSE LET root == get_entity(initial_graph, initial_graph.start)
                      r == add_entity(EntityGraph(cloned_start), cloned_start,
                                      root.name, root.description)
                  IN /\ cloned_graph' = <<r.graph>>
                     /\ raised' = r.raised
                     /\ pc' = IF r.raised = "none" THEN "while" ELSE "crashed"
                     /\ visited' = (root.entity_id :> cloned_start)
                     /\ queue' = <<root.entity_id>>
    /\ data' = <<>>
    /\ UNCHANGED <<initial_graph, current, pending, output>>

\* while not queue.empty(): current = queue.get(); start of the for loop
Dequeue ==
    /\ pc = "while"
    /\ queue # <<>>
    /\ current' = Head(queue)
    /\ queue' = Tail(queue)
    /\ pending' = get_entity(initial_graph, Head(queue)).children
    /\ pc' = IF pending' = {} THEN "while" ELSE "for"
    /\ UNCHANGED <<data, initial_graph, raised, current_id, cloned_graph, visited, output>>

\* one iteration of the for loop over current.children (lines 163-179)
CloneChild ==
    /\ pc = "for"
    /\ \E child \in pending :
          LET cl == clone_child([current_id |-> current_id,
                                 cloned_graph |-> cloned_graph[1],
                                 visited |-> visited, queue |-> queue,
                                 raised |-> "none"],
                                initial_graph, current, child)
          IN /\ pending' = pending \ {child}
             /\ current_id' = cl.current_id
             /\ cloned_graph' = <<cl.cloned_graph>>
             /\ visited' = cl.visited
             /\ queue' = cl.queue
             /\ raised' = cl.raised
             /\ pc' = IF cl.raised # "none" THEN "crashed"
                      ELSE IF pending' = {} THEN "while" ELSE "for"
    /\ UNCHANGED <<data, initial_graph, current, output>>

\* the queue is empty: return self.cloned_graph
Return ==
    /\ pc = "while"
    /\ queue = <<>>
    /\ pc' = "cloned"
    /\ UNCHANGED <<data, initial_graph, raised, cloner_vars>>

\* construct_output(initial_graph, cloned_graph), last call of main
ConstructOutput ==
    /\ pc = "cloned"
    /\ \E o \in construct_output(initial_graph, cloned_graph[1]) : output' = <<o>>
    /\ pc' = "done"
    /\ UNCHANGED <<data, initial_graph, raised, current_id, cloned_graph, visited,
                   queue, current, pending>>

\* Building and serialising a graph: build_from_data, add_entity, add_link and
\* to_dict, with calls that fail.
Next ==
    \/ BuildFromData
    \/ \E entity_id \in Ids, a \in EntityArgs : AddEntity(entity_id, a[1], a[2])
    \/ \E from_entity \in Ids, to_entity \in Ids : AddLink(from_entity, to_entity)
    \/ RoundTrip

Spec == Init /\ [][Next]_vars

\* Cloning: a graph built with add_entity and add_link (calls that fail
\* included), then clone_subgraph and construct_output.
CloneNext ==
    \/ \E entity_id \in Ids, a \in CloneArgs : AddEntity(entity_id, a[1], a[2])
    \/ \E from_entity \in Ids, to_entity \in Ids : AddLink(from_entity, to_entity)
    \/ CloneStart
    \/ Dequeue
    \/ CloneChild
    \/ Return
    \/ ConstructOutput

CloneSpec == Init /\ [][CloneNext]_vars

\* clone_subgraph is sequential code: once called, its loop keeps running
FairSpec ==
    CloneSpec /\ WF_vars(Dequeue) /\ WF_vars(CloneChild) /\ WF_vars(Return)

\* -------------------------------------------------------------- properties
RECURSIVE ReachFrom(_, _)
ReachFrom(g, S) ==
    LET N == S \cup UNION {get_entity(g, u).children : u \in S}
    IN IF N = S THEN S ELSE ReachFrom(g, N)

\* the entities of g reachable from its start, the start included
Reachable(g) == ReachFrom(g, {g.start})

\* the start entity is present, as build_from_data makes sure
ValidStart == has_entity(initial_graph, initial_graph.start)

Cloning == pc \in {"while", "for"}
Cloned == pc \in {"cloned", "done"}

Injective(f) == \A a, b \in DOMAIN f : a # b => f[a] # f[b]

\* C1: once clone_subgraph has returned, visited is a one-to-one mapping from
\* the entities reachable from start onto the cloned entities, and the cloned
\* graph has the edge visited[u] -> visited[v] exactly when the initial graph
\* has the edge u -> v with u reachable from start.
C1_Isomorphic ==
    Cloned =>
        LET R == Reachable(initial_graph)
            cg == cloned_graph[1]
        IN /\ DOMAIN visited = R
           /\ Injective(visited)
           /\ EntityIds(cg) = {visited[u] : u \in R}
           /\ cg.start = visited[initial_graph.start]
           /\ Links(cg) = {<<visited[l[1]], visited[l[2]]>> :
                              l \in {k \in Links(initial_graph) : k[1] \in R}}

\* a cloned graph whose source has a cycle start -> v -> start
C1_Witness ==
    /\ pc = "cloned"
    /\ \E v \in Reachable(initial_graph) :
          /\ v # initial_graph.start
          /\ <<initial_graph.start, v>> \in Links(initial_graph)
          /\ <<v, initial_graph.start>> \in Links(initial_graph)
          /\ <<visited[v], cloned_graph[1].start>> \in Links(cloned_graph[1])

\* C2: the cloned graph holds one entity per entity reached so far, none for
\* an entity that is not reachable from start, and when clone_subgraph has
\* returned it holds as many entities as are reachable from start.
C2_EntityCount ==
    cloned_graph # <<>> /\ ValidStart =>
        /\ Len(cloned_graph[1].entities) = Cardinality(DOMAIN visited)
        /\ DOMAIN visited \subseteq Reachable(initial_graph)
        /\ Cloned => Len(cloned_graph[1].entities)
                        = Cardinality(Reachable(initial_graph))

\* a cloned graph whose source has an entity that links to start and is not
\* reachable from it, and a converging edge on an entity cloned once
C2_Witness ==
    /\ pc = "cloned"
    /\ \E p \in EntityIds(initial_graph) \ Reachable(initial_graph) :
          <<p, initial_graph.start>> \in Links(initial_graph)
    /\ <<initial_graph.start, initial_graph.start>> \in Links(initial_graph)
    /\ Len(cloned_graph[1].entities) = 1

UsedIds == EntityIds(initial_graph)
           \cup (IF cloned_graph = <<>> THEN {} ELSE EntityIds(cloned_graph[1]))

\* C3: every step that calls generate_id leaves in _current_id the smallest
\* integer above the previous one that is the id of no entity of the initial or
\* the cloned graph; the ids of the cloned graph are never ids of the initial
\* graph and increase in the order they were allocated.
C3_GenerateId ==
    /\ [][current_id' # current_id =>
            /\ current_id' > current_id
            /\ current_id' \notin UsedIds
            /\ \A k \in (current_id + 1)..(current_id' - 1) : k \in UsedIds]_vars
    /\ [](cloned_graph # <<>> =>
            LET es == cloned_graph[1].entities
            IN /\ EntityIds(cloned_graph[1]) \cap EntityIds(initial_graph) = {}
               /\ \A i, j \in DOMAIN es : i < j => es[i].entity_id < es[j].entity_id
               /\ \A i \in DOMAIN es : es[i].entity_id > 0
                                       /\ es[i].entity_id <= current_id)

\* two ids were allocated, and generate_id had to skip ids of the initial graph
C3_Witness ==
    /\ cloned_graph # <<>>
    /\ Len(cloned_graph[1].entities) = 2
    /\ cloned_graph[1].entities[1].entity_id > 1
    /\ pc = "cloned"

\* the ids of the entities of g whose children contain the start entity
ParentsOfStart(g) == {l[1] : l \in {k \in Links(g) : k[2] = g.start}}

LinkDictsOf(L) == {[from |-> l[1], to |-> l[2]] : l \in L}

Range(f) == {f[i] : i \in DOMAIN f}

\* C4: the links of the output are the links of the initial graph, the links of
\* the cloned graph and one link from each entity that links to the original
\* start to the cloned start, each once and nothing else; its entities are the
\* initial entities followed by the cloned entities.
C4_Output ==
    pc = "done" =>
        LET o == output[1]
            cg == cloned_graph[1]
            expected == LinkDictsOf(Links(initial_graph))
                        \cup LinkDictsOf(Links(cg))
                        \cup {[from |-> p, to |-> cg.start] :
                                p \in ParentsOfStart(initial_graph)}
        IN /\ Range(o.links) = expected
           /\ Len(o.links) = Cardinality(expected)
           /\ o.entities =
                [i \in DOMAIN initial_graph.entities |->
                    entity_to_dict(initial_graph.entities[i])]
                \o [i \in DOMAIN cg.entities |-> entity_to_dict(cg.entities[i])]

\* an output for a start with a self-loop and a second parent
C4_Witness ==
    /\ pc = "done"
    /\ initial_graph.start \in ParentsOfStart(initial_graph)
    /\ Cardinality(ParentsOfStart(initial_graph)) = 2
    /\ Len(output[1].links) = 5

SameAttributes(g, h) ==
    /\ Len(g.entities) = Len(h.entities)
    /\ \A i \in DOMAIN g.entities :
          /\ g.entities[i].entity_id = h.entities[i].entity_id
          /\ g.entities[i].name = h.entities[i].name
          /\ g.entities[i].description = h.entities[i].description

\* C5: a step that rebuilds a graph whose start is present from its own
\* to_dict() succeeds and gives a graph with the same entities (id, name and
\* description) and the same edges.
C5_RoundTrip ==
    [][RoundTrip /\ ValidStart =>
          /\ raised' = "none"
          /\ SameAttributes(initial_graph, initial_graph')
          /\ Links(initial_graph') = Links(initial_graph)]_vars

\* C6: add_entity with an id that is present raises the duplicate-entity
\* error, add_link with a from or to id that is not present raises the
\* unknown-entity error, and both leave the graph (entities, children,
\* start_parents) as it was.
C6_FailingCalls ==
    [][/\ \A entity_id \in EntityIds(initial_graph) \cap Ids :
             \A a \in EntityArgs :
                AddEntity(entity_id, a[1], a[2])
                   => raised' = "DuplicateEntity" /\ initial_graph' = initial_graph
       /\ \A from_entity \in Ids, to_entity \in Ids :
             (~has_entity(initial_graph, from_entity)
                 \/ ~has_entity(initial_graph, to_entity))
                => (AddLink(from_entity, to_entity)
                      => raised' = "UnknownEntity" /\ initial_graph' = initial_graph)]_vars

\* a graph with a link into start on which a call has just failed
C6_Witness ==
    /\ pc = "graph"
    /\ raised = "UnknownEntity"
    /\ initial_graph.start_parents # {}
    /\ Len(initial_graph.entities) = 1

DataIds(d) == {d.entities[i].entity_id : i \in DOMAIN d.entities}

DistinctIds(d) == Cardinality(DataIds(d)) = Len(d.entities)

\* C7: after build_from_data on a record with pairwise distinct entity ids, the
\* start-not-found error was raised exactly when start is not among the
\* record's entity ids, and a graph that was returned has its start entity.
C7_StartCheck ==
    data # <<>> /\ DistinctIds(data[1]) =>
        /\ raised = "StartNotFound" <=> initial_graph.start \notin DataIds(data[1])
        /\ raised = "none" => /\ pc = "built"
                              /\ has_entity(initial_graph, initial_graph.start)

\* the start is missing from a record whose link names an unknown entity
C7_Witness ==
    /\ data # <<>>
    /\ raised = "StartNotFound"
    /\ Len(data[1].entities) = 1
    /\ \E i \in DOMAIN data[1].links : data[1].links[i].to \notin DataIds(data[1])

\* C8: the clone of every entity cloned so far has the name and the description
\* of its source and an id that is not the source's; the source entities are
\* as they were.
C8_Fidelity ==
    /\ [](cloned_graph # <<>> /\ ValidStart =>
            \A u \in DOMAIN visited :
               /\ has_entity(cloned_graph[1], visited[u])
               /\ get_entity(cloned_graph[1], visited[u]).name
                     = get_entity(initial_graph, u).name
               /\ get_entity(cloned_graph[1], visited[u]).description
                     = get_entity(initial_graph, u).description
               /\ visited[u] # u)
    /\ [][cloned_graph' # <<>> => initial_graph' = initial_graph]_vars

\* a finished clone of two entities with different names, one with a
\* description and one without
C8_Witness ==
    /\ pc = "cloned"
    /\ Cardinality(DOMAIN visited) = 2
    /\ \E u, v \in DOMAIN visited :
          /\ get_entity(initial_graph, u).name # get_entity(initial_graph, v).name
          /\ get_entity(cloned_graph[1], visited[u]).description = "D"
          /\ get_entity(cloned_graph[1], visited[v]).description = NoneStr

\* C9: start_parents is the set of ids of the entities whose children contain
\* the start entity, after every call.
C9_StartParents ==
    initial_graph.start_parents = ParentsOfStart(initial_graph)

\* a failed call on a graph with a parent of start and a link that is not to start
C9_Witness ==
    /\ raised = "DuplicateEntity"
    /\ Cardinality(initial_graph.start_parents) = 1
    /\ \E l \in Links(initial_graph) : l[2] # initial_graph.start

\* C10: visited only grows, an entity is put on the queue only when it is not in
\* visited and is in visited from then on, the queue never holds an entity
\* twice, and a running clone_subgraph returns.
C10_Terminates ==
    /\ [][Cloning =>
            /\ \A u \in DOMAIN visited :
                  u \in DOMAIN visited' /\ visited'[u] = visited[u]
            /\ \A u \in Range(queue') \ Range(queue) :
                  u \notin DOMAIN visited /\ u \in DOMAIN visited']_vars
    /\ [](/\ \A i, j \in DOMAIN queue : i # j => queue[i] # queue[j]
          /\ Range(queue) \subseteq DOMAIN visited
          /\ Len(queue) <= Cardinality(EntityIds(initial_graph)))
    /\ (Cloning ~> (pc = "cloned" /\ queue = <<>>))

\* a clone that returned for a graph with a cycle that is a self-loop on an
\* entity other than start
C10_Witness ==
    /\ pc = "cloned"
    /\ queue = <<>>
    /\ \E v \in DOMAIN visited :
          /\ v # initial_graph.start
          /\ <<v, v>> \in Links(initial_graph)

====
